---- MODULE Spec2Model ----
(***************************************************************************)
(* pydeployhelp: the deploy run (Deploy.start) and the helpers it calls.   *)
(*                                                                         *)
(* Strings the program compares (task names, service names, words typed by *)
(* the operator, environment keys) are TLA+ strings.  A line typed by the  *)
(* operator is the sequence of words that                                  *)
(*     input(...).replace(',', ' ').strip() ... .split()                   *)
(* yields, so the empty line is << >>.  Python lists and insertion-ordered *)
(* dicts are sequences.  The message sink is the sequence `out' of calls   *)
(* made to _print_service_message / print / typer.echo / input.            *)
(***************************************************************************)
EXTENDS Integers, Sequences, FiniteSets, TLC

VARIABLES
    silent,          \* self.silent
    tasks,           \* self.tasks   (caller-supplied --task list)
    targets,         \* self.targets (caller-supplied --target list)
    cfgFile,         \* <deploydir>/config.yml on disk
    envFile,         \* the .env file on disk
    tplFile,         \* the compose template on disk
    configs,         \* local of start: Configs
    environ,         \* local of start: environment mapping
    compose,         \* local of start: rendered compose document
    deploy_tasks,    \* local of start
    deploy_targets,  \* local of start
    written,         \* the generated compose file on disk
    pc,              \* position in start / execute_pipeline
    raised,          \* the exception that ended the run, or "none"
    user_input,      \* enter / ask_to_continue: the line input() returned
    frames,          \* pending recursive frames of enter / ask_to_continue
    ti, si, pi,      \* execute_pipeline: indices of task, subtask, step (1-based)
    exit_code,       \* status returned by the last os.system call, -1 if none
    out              \* operator-facing events, in order

vars == << silent, tasks, targets, cfgFile, envFile, tplFile, configs, environ,
           compose, deploy_tasks, deploy_targets, written, pc, raised, user_input,
           frames, ti, si, pi, exit_code, out >>

(***************************************************************************)
(* Bounds                                                                  *)
(***************************************************************************)
MaxPrompts  == 2   \* recursive re-prompts followed in enter / ask_to_continue
MaxSteps    == 3   \* longest pipeline drawn for the executor
MaxSubtasks == 2   \* longest subtask list drawn for the executor
MaxRefs     == 2   \* longest depends_on / links list drawn for the filter

(***************************************************************************)
(* Generic helpers                                                         *)
(***************************************************************************)
Range(s) == { s[k] : k \in 1..Len(s) }

SeqsUpTo(S, n) == UNION { [1..k -> S] : k \in 0..n }

\* One event of the operator-facing stream.
Ev(e, t, s, i) == [ev |-> e, t |-> t, s |-> s, i |-> i]
Msg(e) == Ev(e, 0, 0, 0)

Said(e) == \E k \in 1..Len(out) : out[k].ev = e
Count(e) == Cardinality({ k \in 1..Len(out) : out[k].ev = e })

(***************************************************************************)
(* str.lower() on the words of the model                                   *)
(***************************************************************************)
Lower(w) ==
    CASE w = "ALL" -> "all"
      [] w = "UP"  -> "up"
      [] w = "Up"  -> "up"
      [] w = "WEB" -> "web"
      [] w = "YES" -> "yes"
      [] OTHER     -> w

(***************************************************************************)
(* Configs: tasks is an ordered mapping name -> list of subtasks, kept as  *)
(* a sequence of [name, subtasks]; a subtask is [title, pipeline].         *)
(***************************************************************************)
TaskKeys(cfg) == [k \in 1..Len(cfg.tasks) |-> cfg.tasks[k].name]

HasTask(cfg, name) == \E k \in 1..Len(cfg.tasks) : cfg.tasks[k].name = name

Subtasks(cfg, name) ==
    (CHOOSE e \in Range(cfg.tasks) : e.name = name).subtasks

EmptyConfigs == [tasks |-> << >>]

(***************************************************************************)
(* Command templates: a sequence of parts, a literal or a {key}            *)
(* placeholder.  pipe.format over environ raises KeyError on a placeholder  *)
(* whose key is not in the mapping.                                        *)
(***************************************************************************)
Lit(s) == [kind |-> "lit", v |-> s]
Key(k) == [kind |-> "key", v |-> k]
NUL    == "\\0"

FormatOk(pipe, env) ==
    \A k \in 1..Len(pipe) : pipe[k].kind = "key" => pipe[k].v \in DOMAIN env

Format(pipe, env) ==
    [k \in 1..Len(pipe) |->
        IF pipe[k].kind = "key" THEN env[pipe[k].v] ELSE pipe[k].v]

\* os.system raises ValueError on a command with an embedded null byte.
SystemRaises(command) == NUL \in Range(command)

(***************************************************************************)
(* Jinja rendering of a compose value: an undefined name renders as the    *)
(* empty string.                                                           *)
(***************************************************************************)
Render(parts, env) ==
    [k \in 1..Len(parts) |->
        IF parts[k].kind = "key"
        THEN (IF parts[k].v \in DOMAIN env THEN env[parts[k].v] ELSE "")
        ELSE parts[k].v]

\* A service entry of the compose document: name and service_data.
Service(n, d, l, img) == [name |-> n, depends_on |-> d, links |-> l, image |-> img]

ServiceNames(doc) == [k \in 1..Len(doc.services) |-> doc.services[k].name]

EmptyCompose == [has_services |-> FALSE, services |-> << >>]

NoFile == [exists |-> FALSE, env |-> "", services |-> << >>]

EmptyMap == [k \in {} |-> ""]

(***************************************************************************)
(* load_environ: dotenv values, then environ["env"] = ENV or "latest"      *)
(***************************************************************************)
LoadEnvironMap(file) ==
    LET loaded == IF file.exists THEN file.values ELSE EmptyMap
    IN  ("env" :> (IF "ENV" \in DOMAIN loaded THEN loaded["ENV"] ELSE "latest"))
            @@ loaded

(***************************************************************************)
(* load_compose: the rendered document ({} when the template is missing)   *)
(***************************************************************************)
LoadComposeDoc(file, env) ==
    IF ~file.exists THEN EmptyCompose
    ELSE [has_services |-> file.has_services,
          services |-> [k \in 1..Len(file.services) |->
              [file.services[k] EXCEPT !.image = Render(@, env)]]]

\* A variant of NoServices that only notices a missing key.
NoServicesAbsentOnly(doc) == ~doc.has_services

\* not compose.get("services")
NoServices(doc) == ~doc.has_services \/ doc.services = << >>

(***************************************************************************)
(* save_environment_compose: the services written                          *)
(***************************************************************************)
\* A variant of FilterRefs that leaves the list as it is.
FilterRefsKeepAll(ref_data, deploy_tgts) == ref_data

FilterRefs(ref_data, deploy_tgts) ==
    LET Kept(ref) == ref \in Range(deploy_tgts)
    IN  IF ref_data = << >> THEN ref_data ELSE SelectSeq(ref_data, Kept)

FilterServices(services, deploy_tgts) ==
    LET Retained(svc) == svc.name \in Range(deploy_tgts)
        kept == SelectSeq(services, Retained)
    IN  [k \in 1..Len(kept) |->
            [kept[k] EXCEPT !.depends_on = FilterRefs(@, deploy_tgts),
                            !.links      = FilterRefs(@, deploy_tgts)]]

(***************************************************************************)
(* enter: the words kept from a typed line, and what they resolve to       *)
(***************************************************************************)
CtrlC == << "^C" >>      \* the operator interrupts instead of typing a line

EnterItems(allowed_items, default, line) ==
    LET words   == IF line = << >> THEN << default >> ELSE line
        lowered == [k \in 1..Len(words) |-> Lower(words[k])]
        Allowed(x) == x \in Range(allowed_items) \/ x = "all"
    IN  SelectSeq(lowered, Allowed)

\* enter in silent mode: no prompt.
SilentItems(allowed_items, default) ==
    IF default = "all" THEN allowed_items ELSE << default >>

\* enter, once some word was kept: the token all stands for every candidate.
EnterChoice(allowed_items, items) ==
    IF "all" \in Range(items) THEN allowed_items ELSE items

\* The caller-supplied list is taken as it is.
FlagAccepted(flag, allowed) ==
    /\ flag # << >>
    /\ \A el \in Range(flag) : el \in Range(allowed) \cup {"all"}

(***************************************************************************)
(* Exceptions.  typer.Abort is click's Abort, a RuntimeError; the except   *)
(* clause of start names KeyboardInterrupt, InterruptedError, RuntimeError.*)
(***************************************************************************)
IsRuntimeError(exc) == exc \in {"RuntimeError", "Abort"}

Caught(exc) == exc \in {"KeyboardInterrupt", "InterruptedError"} \/ IsRuntimeError(exc)

\* An exception raised inside the try block of start, after `evs' were emitted.
RaiseInTry(exc, evs) ==
    /\ raised' = exc
    /\ pc' = IF Caught(exc) THEN "done" ELSE "crashed"
    /\ out' = out \o evs \o (IF Caught(exc) THEN << Msg("Finished deploy") >> ELSE << >>)

\* An exception raised in the else block of start: nothing catches it.
RaiseInElse(exc, evs) ==
    /\ raised' = exc
    /\ pc' = "crashed"
    /\ out' = out \o evs

Terminated == pc \in {"done", "crashed"}

(***************************************************************************)
(* Deploy.start, up to the confirmation gate                               *)
(***************************************************************************)
DockerStates == {"ok", "not_found", "not_working"}

\* start prints "Started deploy" and calls validate_docker_binaries.
ValidateDockerBinaries ==
    /\ pc = "validate"
    /\ \E docker \in DockerStates :
        CASE docker = "ok" ->
                /\ pc' = "load_configs"
                /\ out' = out \o << Msg("Started deploy") >>
                /\ UNCHANGED raised
          [] docker = "not_found" ->
                RaiseInTry("FileNotFoundError", << Msg("Started deploy") >>)
          [] docker = "not_working" ->
                RaiseInTry("Abort", << Msg("Started deploy"), Msg("docker is not available") >>)
    /\ UNCHANGED << user_input, silent, tasks, targets, cfgFile, envFile, tplFile, configs, environ,
                    compose, deploy_tasks, deploy_targets, written, frames,
                    ti, si, pi, exit_code >>

LoadConfigs ==
    /\ pc = "load_configs"
    /\ LET loaded == IF cfgFile.exists THEN [tasks |-> cfgFile.tasks] ELSE EmptyConfigs
           warn   == IF cfgFile.exists THEN << >> ELSE << Msg("Config file was not found") >>
       IN  IF loaded.tasks = << >>
           THEN /\ RaiseInTry("Abort", warn \o << Msg("No tasks were found") >>)
                /\ UNCHANGED configs
           ELSE /\ configs' = loaded
                /\ pc' = "load_environ"
                /\ out' = out \o warn
                /\ UNCHANGED raised
    /\ UNCHANGED << user_input, silent, tasks, targets, cfgFile, envFile, tplFile, environ,
                    compose, deploy_tasks, deploy_targets, written, frames,
                    ti, si, pi, exit_code >>

LoadEnviron ==
    /\ pc = "load_environ"
    /\ environ' = LoadEnvironMap(envFile)
    /\ out' = out \o (IF envFile.exists THEN << >> ELSE << Msg(".env file was not found") >>)
    /\ pc' = "load_compose"
    /\ UNCHANGED << user_input, silent, tasks, targets, cfgFile, envFile, tplFile, configs,
                    compose, deploy_tasks, deploy_targets, written, raised, frames,
                    ti, si, pi, exit_code >>

LoadCompose ==
    /\ pc = "load_compose"
    /\ LET doc  == LoadComposeDoc(tplFile, environ)
           warn == IF tplFile.exists THEN << >> ELSE << Msg("compose file was not found") >>
       IN  IF NoServices(doc)
           THEN /\ RaiseInTry("InterruptedError", warn \o << Msg("No services were found") >>)
                /\ UNCHANGED compose
           ELSE /\ compose' = doc
                /\ pc' = "enter_deploy_tasks"
                /\ out' = out \o warn
                /\ UNCHANGED raised
    /\ UNCHANGED << user_input, silent, tasks, targets, cfgFile, envFile, tplFile, configs, environ,
                    deploy_tasks, deploy_targets, written, frames,
                    ti, si, pi, exit_code >>

\* The lines the operator may type at a prompt.
Lines == { << >>, << "ALL" >>, << "YES" >>, << "no" >>, << "down", "UP" >>, << "WEB" >>, CtrlC }

\* The recursion of enter and ask_to_continue is followed MaxPrompts deep:
\* beyond that only a line that ends it is considered.
Followed(line, ends) == frames < MaxPrompts \/ line = CtrlC \/ ends

\* enter_deploy_tasks, up to the moment input() has returned a line (or was
\* interrupted).  A recursive call of enter comes back here: the list check
\* and the silent flag have not changed.
EnterDeployTasks ==
    /\ pc = "enter_deploy_tasks"
    /\ LET allowed_tasks == TaskKeys(configs)
       IN  IF FlagAccepted(tasks, allowed_tasks)
           THEN /\ deploy_tasks' = tasks
                /\ pc' = "enter_deploy_targets"
                /\ UNCHANGED << user_input, raised, out >>
           ELSE IF silent
           THEN /\ deploy_tasks' = SilentItems(allowed_tasks, allowed_tasks[1])
                /\ pc' = "enter_deploy_targets"
                /\ UNCHANGED << user_input, raised, out >>
           ELSE \E line \in Lines :
                /\ Followed(line, EnterItems(allowed_tasks, allowed_tasks[1], line) # << >>)
                /\ IF line = CtrlC
                   THEN /\ RaiseInTry("KeyboardInterrupt", << Msg("input deploy tasks") >>)
                        /\ UNCHANGED user_input
                   ELSE /\ user_input' = line
                        /\ out' = out \o << Msg("input deploy tasks") >>
                        /\ pc' = "resolve_deploy_tasks"
                        /\ UNCHANGED raised
                /\ UNCHANGED deploy_tasks
    /\ UNCHANGED << silent, tasks, targets, cfgFile, envFile, tplFile, configs, environ,
                    compose, deploy_targets, written, frames, ti, si, pi, exit_code >>

\* enter, from the line read to its return or its recursive call.
ResolveDeployTasks ==
    /\ pc = "resolve_deploy_tasks"
    /\ LET allowed_tasks == TaskKeys(configs)
           items == EnterItems(allowed_tasks, allowed_tasks[1], user_input)
       IN  IF items = << >>
           THEN /\ frames' = frames + 1
                /\ pc' = "enter_deploy_tasks"
                /\ UNCHANGED << deploy_tasks, out >>
           ELSE /\ deploy_tasks' = EnterChoice(allowed_tasks, items)
                /\ out' = out \o << Msg("chosen deploy tasks") >>
                /\ frames' = 0
                /\ pc' = "enter_deploy_targets"
    /\ user_input' = << >>
    /\ UNCHANGED << silent, tasks, targets, cfgFile, envFile, tplFile, configs, environ,
                    compose, deploy_targets, written, raised, ti, si, pi, exit_code >>

EnterDeployTargets ==
    /\ pc = "enter_deploy_targets"
    /\ LET allowed_targets == ServiceNames(compose)
       IN  IF FlagAccepted(targets, allowed_targets)
           THEN /\ deploy_targets' = targets
                /\ pc' = "ask_to_continue"
                /\ UNCHANGED << user_input, raised, out >>
           ELSE IF silent
           THEN /\ deploy_targets' = SilentItems(allowed_targets, "all")
                /\ pc' = "ask_to_continue"
                /\ UNCHANGED << user_input, raised, out >>
           ELSE \E line \in Lines :
                /\ Followed(line, EnterItems(allowed_targets, "all", line) # << >>)
                /\ IF line = CtrlC
                   THEN /\ RaiseInTry("KeyboardInterrupt", << Msg("input deploy targets") >>)
                        /\ UNCHANGED user_input
                   ELSE /\ user_input' = line
                        /\ out' = out \o << Msg("input deploy targets") >>
                        /\ pc' = "resolve_deploy_targets"
                        /\ UNCHANGED raised
                /\ UNCHANGED deploy_targets
    /\ UNCHANGED << silent, tasks, targets, cfgFile, envFile, tplFile, configs, environ,
                    compose, deploy_tasks, written, frames, ti, si, pi, exit_code >>

ResolveDeployTargets ==
    /\ pc = "resolve_deploy_targets"
    /\ LET allowed_targets == ServiceNames(compose)
           items == EnterItems(allowed_targets, "all", user_input)
       IN  IF items = << >>
           THEN /\ frames' = frames + 1
                /\ pc' = "enter_deploy_targets"
                /\ UNCHANGED << deploy_targets, out >>
           ELSE /\ deploy_targets' = EnterChoice(allowed_targets, items)
                /\ out' = out \o << Msg("chosen deploy targets") >>
                /\ frames' = 0
                /\ pc' = "ask_to_continue"
    /\ user_input' = << >>
    /\ UNCHANGED << silent, tasks, targets, cfgFile, envFile, tplFile, configs, environ,
                    compose, deploy_tasks, written, raised, ti, si, pi, exit_code >>

\* agreement = input(...).strip().lower() or 'yes'
Agreement(line) ==
    IF line = << >> THEN "yes"
    ELSE IF Len(line) = 1 THEN Lower(line[1]) ELSE "unrecognised"

\* start lines 69-70, and ask_to_continue up to the moment input() has
\* returned a line (or was interrupted).
AskToContinue ==
    /\ pc = "ask_to_continue"
    /\ IF deploy_tasks = tasks /\ deploy_targets = targets
       THEN /\ pc' = "save"
            /\ UNCHANGED << user_input, raised, out >>
       ELSE \E line \in Lines :
            /\ Followed(line, Agreement(line) \in {"yes", "no"})
            /\ IF line = CtrlC
               THEN /\ RaiseInTry("KeyboardInterrupt", << Msg("input agreement") >>)
                    /\ UNCHANGED user_input
               ELSE /\ user_input' = line
                    /\ out' = out \o << Msg("input agreement") >>
                    /\ pc' = "resolve_agreement"
                    /\ UNCHANGED raised
    /\ UNCHANGED << silent, tasks, targets, cfgFile, envFile, tplFile, configs, environ,
                    compose, deploy_tasks, deploy_targets, written, frames,
                    ti, si, pi, exit_code >>

\* What ask_to_continue does with the answer, given the number of callers
\* that are themselves ask_to_continue: "return", "raise" or "recurse".  A
\* recursive call that returns comes back to a frame whose `agree' is still
\* None, and that frame raises.
AgreementOutcome(agreement, callers) ==
    CASE agreement = "yes" -> IF callers = 0 THEN "return" ELSE "raise"
      [] agreement = "no"  -> "raise"
      [] OTHER             -> "recurse"

ResolveAgreement ==
    /\ pc = "resolve_agreement"
    /\ LET todo == AgreementOutcome(Agreement(user_input), frames)
       IN  CASE todo = "return" ->
                    /\ pc' = "save"
                    /\ UNCHANGED << frames, raised, out >>
             [] todo = "raise" ->
                    /\ RaiseInTry("InterruptedError", << >>)
                    /\ frames' = 0
             [] todo = "recurse" ->
                    /\ frames' = frames + 1
                    /\ pc' = "ask_to_continue"
                    /\ UNCHANGED << raised, out >>
    /\ user_input' = << >>
    /\ UNCHANGED << silent, tasks, targets, cfgFile, envFile, tplFile, configs, environ,
                    compose, deploy_tasks, deploy_targets, written, ti, si, pi, exit_code >>

(***************************************************************************)
(* Deploy.start, the else block: write, execute, remove, report            *)
(***************************************************************************)
SaveEnvironmentCompose ==
    /\ pc = "save"
    /\ LET services == FilterServices(compose.services, deploy_targets)
       IN  /\ compose' = [compose EXCEPT !.services = services]
           /\ written' = [exists |-> TRUE, env |-> environ["env"], services |-> services]
    /\ pc' = "task"
    /\ ti' = 1
    /\ UNCHANGED << user_input, silent, tasks, targets, cfgFile, envFile, tplFile, configs, environ,
                    deploy_tasks, deploy_targets, raised, frames, si, pi, exit_code, out >>

\* for task in deploy_tasks: ... configs.tasks[task]
NextTask ==
    /\ pc = "task"
    /\ IF ti > Len(deploy_tasks)
       THEN /\ pc' = "remove"
            /\ UNCHANGED << raised, out, si >>
       ELSE IF ~HasTask(configs, deploy_tasks[ti])
       THEN /\ RaiseInElse("KeyError", << >>)
            /\ UNCHANGED si
       ELSE /\ pc' = "subtask"
            /\ si' = 1
            /\ UNCHANGED << raised, out >>
    /\ UNCHANGED << user_input, silent, tasks, targets, cfgFile, envFile, tplFile, configs, environ,
                    compose, deploy_tasks, deploy_targets, written, frames,
                    ti, pi, exit_code >>

CurrentSubtasks == Subtasks(configs, deploy_tasks[ti])

\* for subtask in configs.tasks[task]: report Started
NextSubtask ==
    /\ pc = "subtask"
    /\ IF si > Len(CurrentSubtasks)
       THEN /\ ti' = ti + 1
            /\ pc' = "task"
            /\ UNCHANGED << pi, out >>
       ELSE /\ out' = out \o << Ev("Started", ti, si, 0) >>
            /\ pi' = 1
            /\ pc' = "step"
            /\ UNCHANGED ti
    /\ UNCHANGED << user_input, silent, tasks, targets, cfgFile, envFile, tplFile, configs, environ,
                    compose, deploy_tasks, deploy_targets, written, raised, frames,
                    si, exit_code >>

\* except Exception: report Skipping and leave the subtask.
SkipSubtask(evs) ==
    /\ out' = out \o evs \o << Ev("Skipping", ti, si, pi) >>
    /\ si' = si + 1
    /\ pc' = "subtask"
    /\ UNCHANGED << pi, exit_code >>

\* A variant of Launch that does not wait for the command.
LaunchNoWait ==
    /\ out' = out \o << Ev("Step", ti, si, pi), Ev("system", ti, si, pi) >>
    /\ pi' = pi + 1
    /\ pc' = "step"
    /\ exit_code' = -1
    /\ UNCHANGED si

\* typer.echo of the step, then os.system(command): a blocking call.
Launch ==
    /\ out' = out \o << Ev("Step", ti, si, pi), Ev("system", ti, si, pi) >>
    /\ pc' = "running"
    /\ exit_code' = -1
    /\ UNCHANGED << si, pi >>

\* One turn of the step loop: interpolate, echo, hand the command to
\* os.system; an exception skips the rest of the subtask, the end of the
\* list reports Finished.
NextStep ==
    /\ pc = "step"
    /\ LET pipeline == CurrentSubtasks[si].pipeline
       IN  IF pi > Len(pipeline)
           THEN /\ out' = out \o << Ev("Finished", ti, si, 0) >>
                /\ si' = si + 1
                /\ pc' = "subtask"
                /\ UNCHANGED << pi, exit_code >>
           ELSE IF ~FormatOk(pipeline[pi], environ)
           THEN SkipSubtask(<< >>)
           ELSE IF SystemRaises(Format(pipeline[pi], environ))
           THEN SkipSubtask(<< Ev("Step", ti, si, pi) >>)
           ELSE Launch
    /\ UNCHANGED << user_input, silent, tasks, targets, cfgFile, envFile, tplFile, configs, environ,
                    compose, deploy_tasks, deploy_targets, written, raised, frames,
                    ti >>

ExitCodes == {0, 1}

\* A variant of SystemReturns that treats a non-zero status as a failure of
\* the step and skips the rest of the subtask.
SystemReturnsChecked ==
    /\ pc = "running"
    /\ \E code \in ExitCodes :
        /\ exit_code' = code
        /\ IF code = 0
           THEN /\ out' = out \o << Ev("returned", ti, si, pi) >>
                /\ pi' = pi + 1
                /\ pc' = "step"
                /\ UNCHANGED si
           ELSE /\ out' = out \o << Ev("returned", ti, si, pi), Ev("Skipping", ti, si, pi) >>
                /\ si' = si + 1
                /\ pc' = "subtask"
                /\ UNCHANGED pi
    /\ UNCHANGED << user_input, silent, tasks, targets, cfgFile, envFile, tplFile, configs, environ,
                    compose, deploy_tasks, deploy_targets, written, raised, frames,
                    ti >>

\* os.system returns the status of the command; the loop goes on.
SystemReturns ==
    /\ pc = "running"
    /\ \E code \in ExitCodes : exit_code' = code
    /\ out' = out \o << Ev("returned", ti, si, pi) >>
    /\ pi' = pi + 1
    /\ pc' = "step"
    /\ UNCHANGED << user_input, silent, tasks, targets, cfgFile, envFile, tplFile, configs, environ,
                    compose, deploy_tasks, deploy_targets, written, raised, frames,
                    ti, si >>

UnlinkOutcomes == {"ok", "PermissionError", "FileNotFoundError"}

\* _remove_file(compose_path): only PermissionError is caught.
RemoveFile ==
    /\ pc = "remove"
    /\ \E outcome \in UnlinkOutcomes :
        CASE outcome = "ok" ->
                /\ written' = NoFile
                /\ pc' = "report"
                /\ out' = out \o << Msg("unlink") >>
                /\ UNCHANGED raised
          [] outcome = "PermissionError" ->
                /\ pc' = "report"
                /\ out' = out \o << Msg("unlink"), Msg("Unable to delete file") >>
                /\ UNCHANGED << written, raised >>
          [] outcome = "FileNotFoundError" ->
                /\ written' = NoFile
                /\ RaiseInElse("FileNotFoundError", << Msg("unlink") >>)
    /\ UNCHANGED << user_input, silent, tasks, targets, cfgFile, envFile, tplFile, configs, environ,
                    compose, deploy_tasks, deploy_targets, frames,
                    ti, si, pi, exit_code >>

ReportFinished ==
    /\ pc = "report"
    /\ out' = out \o << Msg("Finished deploy. Processing time") >>
    /\ pc' = "done"
    /\ UNCHANGED << user_input, silent, tasks, targets, cfgFile, envFile, tplFile, configs, environ,
                    compose, deploy_tasks, deploy_targets, written, raised, frames,
                    ti, si, pi, exit_code >>

(***************************************************************************)
(* Inputs of a run                                                         *)
(***************************************************************************)
TplEnv == << Lit("echo"), Key("env") >>      \* "echo {env}"
TplTag == << Lit("push"), Key("TAG") >>      \* "push {TAG}"
TplNul == << Lit("printf"), Lit(NUL) >>      \* a command with a null byte

Subtask(title, pipeline) == [title |-> title, pipeline |-> pipeline]
Task(name, subtasks) == [name |-> name, subtasks |-> subtasks]

CfgMissing == [exists |-> FALSE, tasks |-> << >>]
CfgOf(tsk) == [exists |-> TRUE, tasks |-> tsk]

CfgFiles ==
    { CfgMissing,
      CfgOf(<< >>),
      CfgOf(<< Task("up",   << Subtask("build", << TplEnv, TplTag, TplEnv >>),
                               Subtask("run",   << TplEnv >>) >>),
               Task("down", << Subtask("stop",  << TplEnv >>) >>) >>),
      CfgOf(<< Task("Up",   << Subtask("run",   << TplEnv >>) >>) >>) }

EnvMissing == [exists |-> FALSE, values |-> EmptyMap]
EnvOf(m) == [exists |-> TRUE, values |-> m]

EnvFiles == { EnvMissing, EnvOf(("ENV" :> "prod") @@ ("TAG" :> "1")) }

Image == << Lit("app:"), Key("env") >>

TplMissing == [exists |-> FALSE, has_services |-> FALSE, services |-> << >>]
TplOf(has, svcs) == [exists |-> TRUE, has_services |-> has, services |-> svcs]

TplFiles ==
    { TplMissing,
      TplOf(FALSE, << >>),
      TplOf(TRUE, << >>),
      TplOf(TRUE, << Service("web", << "db" >>, << "db", "web" >>, Image),
                     Service("db", << >>, << >>, Image) >>) }

TaskFlags   == { << >>, << "up" >>, << "all" >>, << "down", "up" >>, << "bogus" >> }
TargetFlags == { << >>, << "web" >>, << "all" >>, << "zzz" >> }

InitLocals ==
    /\ configs = EmptyConfigs
    /\ environ = EmptyMap
    /\ compose = EmptyCompose
    /\ deploy_tasks = << >>
    /\ deploy_targets = << >>
    /\ written = NoFile
    /\ raised = "none"
    /\ user_input = << >>
    /\ frames = 0
    /\ ti = 0 /\ si = 0 /\ pi = 0
    /\ exit_code = -1
    /\ out = << >>

Init ==
    /\ silent \in BOOLEAN
    /\ tasks \in TaskFlags
    /\ targets \in TargetFlags
    /\ cfgFile \in CfgFiles
    /\ envFile \in EnvFiles
    /\ tplFile \in TplFiles
    /\ pc = "validate"
    /\ InitLocals

Next ==
    \/ ValidateDockerBinaries
    \/ LoadConfigs
    \/ LoadEnviron
    \/ LoadCompose
    \/ EnterDeployTasks
    \/ ResolveDeployTasks
    \/ EnterDeployTargets
    \/ ResolveDeployTargets
    \/ AskToContinue
    \/ ResolveAgreement
    \/ SaveEnvironmentCompose
    \/ NextTask
    \/ NextSubtask
    \/ NextStep
    \/ SystemReturns
    \/ RemoveFile
    \/ ReportFinished

Spec == Init /\ [][Next]_vars

(***************************************************************************)
(* The compose filter on its own: runs that reach save_environment_compose *)
(* with both caller-supplied lists accepted, over the documents and target *)
(* lists below.                                                            *)
(***************************************************************************)
SvcNames == {"web", "db"}
RefLists == SeqsUpTo(SvcNames, MaxRefs)

FilterTplFiles ==
    { TplOf(TRUE, << Service("web", d, l, Image) >>) : d \in RefLists, l \in RefLists }
    \cup
    { TplOf(TRUE, << Service("web", d1, l1, Image), Service("db", d2, << >>, Image) >>) :
        d1 \in RefLists, l1 \in RefLists, d2 \in RefLists }

TargetLists == SeqsUpTo(SvcNames \cup {"all"}, 2) \ { << >> }

SimpleCfg == CfgOf(<< Task("up", << Subtask("run", << TplEnv >>) >>) >>)

\* The state start is in when both lists were accepted and nothing was asked.
AfterSelection ==
    /\ silent \in BOOLEAN
    /\ configs = [tasks |-> cfgFile.tasks]
    /\ environ = LoadEnvironMap(envFile)
    /\ FlagAccepted(tasks, TaskKeys(configs))
    /\ deploy_tasks = tasks
    /\ deploy_targets = targets
    /\ raised = "none"
    /\ user_input = << >>
    /\ frames = 0
    /\ exit_code = -1
    /\ out = << Msg("Started deploy") >>
               \o (IF envFile.exists THEN << >> ELSE << Msg(".env file was not found") >>)

InitFilter ==
    /\ cfgFile = SimpleCfg
    /\ envFile \in EnvFiles
    /\ tplFile \in FilterTplFiles
    /\ tasks = << "up" >>
    /\ targets \in TargetLists
    /\ AfterSelection
    /\ compose = LoadComposeDoc(tplFile, environ)
    /\ FlagAccepted(targets, ServiceNames(compose))
    /\ written = NoFile
    /\ pc = "save"
    /\ ti = 0 /\ si = 0 /\ pi = 0

NextFilter == SaveEnvironmentCompose

SpecFilter == InitFilter /\ [][NextFilter]_vars

(***************************************************************************)
(* The executor on its own: runs that reach execute_pipeline with both     *)
(* caller-supplied lists accepted, over the configurations below.          *)
(***************************************************************************)
Templates     == { TplEnv, TplTag, TplNul }
Pipelines     == SeqsUpTo(Templates, MaxSteps)
TailPipelines == { << TplEnv, TplEnv >>, << TplTag >> }

SubtaskLists ==
    { << Subtask("first", p) >> \o [k \in 1..Len(tl) |-> Subtask("later", tl[k])] :
        p \in Pipelines, tl \in SeqsUpTo(TailPipelines, MaxSubtasks - 1) }

PipelineCfgFiles ==
    { CfgOf(<< Task("up", sl), Task("down", << Subtask("stop", << TplEnv >>) >>) >>) :
        sl \in SubtaskLists }

PipelineTasks == { << "up" >>, << "down", "up" >>, << "up", "all", "down" >>, << "all" >> }

WebOnly == TplOf(TRUE, << Service("web", << >>, << >>, Image) >>)

InitPipeline ==
    /\ cfgFile \in PipelineCfgFiles
    /\ envFile \in EnvFiles
    /\ tplFile = WebOnly
    /\ tasks \in PipelineTasks
    /\ targets = << "web" >>
    /\ AfterSelection
    /\ compose = LoadComposeDoc(tplFile, environ)
    /\ written = [exists |-> TRUE, env |-> environ["env"], services |-> compose.services]
    /\ pc = "task"
    /\ ti = 1 /\ si = 0 /\ pi = 0

NextPipeline ==
    \/ NextTask
    \/ NextSubtask
    \/ NextStep
    \/ SystemReturns

SpecPipeline == InitPipeline /\ [][NextPipeline]_vars

(***************************************************************************)
(* Vocabulary of the properties                                            *)
(***************************************************************************)
\* The document load_compose returned, before save_environment_compose
\* rewrote its services.
Rendered == LoadComposeDoc(tplFile, environ)

\* start has reached its else block: the compose file has been written.
WriteDone == ti >= 1

\* execute_pipeline is over: it returned, or an exception left it.
PipelineOver == WriteDone /\ pc \in {"remove", "report", "done", "crashed"}

\* Both selections are resolved and the run goes on.
PastSelection ==
    pc \in {"ask_to_continue", "resolve_agreement", "save", "task", "subtask",
            "step", "running", "remove", "report"}

\* The subtasks execute_pipeline was given: <<t, s>> is subtask s of the
\* t-th listed task.
Positions ==
    UNION { { << t, s >> : s \in 1..Len(Subtasks(configs, deploy_tasks[t])) } :
            t \in { u \in 1..Len(deploy_tasks) : HasTask(configs, deploy_tasks[u]) } }

Before(p, q) == p[1] < q[1] \/ (p[1] = q[1] /\ p[2] < q[2])

PipelineOf(p) == Subtasks(configs, deploy_tasks[p[1]])[p[2]].pipeline

Raises(pipe) == ~FormatOk(pipe, environ) \/ SystemRaises(Format(pipe, environ))

\* Steps of a pipeline that come before its first raising step.
Runnable(pipeline) ==
    { i \in 1..Len(pipeline) : \A j \in 1..i : ~Raises(pipeline[j]) }

Ran(p, i) == \E k \in 1..Len(out) : out[k] = Ev("system", p[1], p[2], i)

Reported(e, p) ==
    \E k \in 1..Len(out) : out[k].ev = e /\ out[k].t = p[1] /\ out[k].s = p[2]

SkippedAt(p, j) == \E k \in 1..Len(out) : out[k] = Ev("Skipping", p[1], p[2], j)

InputEvents == {"input deploy tasks", "input deploy targets", "input agreement"}

(***************************************************************************)
(* C1  Referential pruning.  Once save_environment_compose has run, the    *)
(* written document holds exactly the services of the rendered document    *)
(* whose name is in deploy_targets, each once and in the rendered order,   *)
(* and every entry of a written depends_on or links list is a member of    *)
(* deploy_targets.                                                         *)
(***************************************************************************)
C1_ReferentialPruning ==
    (pc = "task" /\ written.exists) =>
        LET D == Rendered.services
            T == Range(deploy_targets)
            W == written.services
            kept == { k \in 1..Len(D) : D[k].name \in T }
        IN  /\ { W[k].name : k \in 1..Len(W) } = { D[k].name : k \in kept }
            /\ Len(W) = Cardinality(kept)
            /\ \A k \in 1..Len(W) :
                /\ Range(W[k].depends_on) \subseteq T
                /\ Range(W[k].links) \subseteq T
                /\ \E d \in kept : D[d].name = W[k].name /\ D[d].image = W[k].image

\* A service was pruned, and a retained service lost a reference to it
\* while keeping another one.
C1_Witness ==
    /\ pc = "task" /\ written.exists
    /\ Len(written.services) = 1 /\ Len(Rendered.services) = 2
    /\ written.services[1].name = "web"
    /\ Rendered.services[1].links = << "db", "web" >>
    /\ written.services[1].links = << "web" >>
    /\ Rendered.services[1].depends_on = << "db" >>
    /\ written.services[1].depends_on = << >>

(***************************************************************************)
(* C2  Subtask failure isolation.  When execute_pipeline is over, for      *)
(* every subtask that was skipped at step j: its steps before j were       *)
(* executed, its steps from j on were not, and every later subtask of the  *)
(* listed tasks was started and had its steps executed (up to a raising    *)
(* step of its own).                                                       *)
(***************************************************************************)
C2_FailureIsolation ==
    PipelineOver =>
        \A p \in Positions : \A j \in 1..Len(PipelineOf(p)) :
            SkippedAt(p, j) =>
                /\ \A i \in 1..(j - 1) : Ran(p, i)
                /\ \A i \in j..Len(PipelineOf(p)) : ~Ran(p, i)
                /\ \A q \in Positions : Before(p, q) =>
                    /\ Reported("Started", q)
                    /\ \A i \in Runnable(PipelineOf(q)) : Ran(q, i)

(***************************************************************************)
(* C3  The executor completes all tasks it was given.  When                *)
(* execute_pipeline is over it has returned normally, and every subtask of *)
(* every listed task was reported started and then finished or skipped.    *)
(***************************************************************************)
C3_CompletesAllTasks ==
    PipelineOver =>
        /\ raised # "KeyError"
        /\ \A t \in 1..Len(deploy_tasks) : HasTask(configs, deploy_tasks[t])
        /\ \A p \in Positions :
            /\ Reported("Started", p)
            /\ Reported("Finished", p) \/ Reported("Skipping", p)

(***************************************************************************)
(* C4  Artifact cleanup.  A run that wrote the compose file ends having    *)
(* attempted to remove it and having reported the success message, also    *)
(* when the removal failed.                                                *)
(***************************************************************************)
C4_CleanupAttempted ==
    (Terminated /\ WriteDone) =>
        /\ Said("unlink")
        /\ out[Len(out)] = Msg("Finished deploy. Processing time")

(***************************************************************************)
(* C5  Fatal aborts.  A run ended by an exception raised before the write  *)
(* step ends inside start: the last report is the interrupted "Finished    *)
(* deploy", no compose file exists and no pipeline step was executed.      *)
(***************************************************************************)
C5_FatalAbortReported ==
    (Terminated /\ raised # "none" /\ ~WriteDone) =>
        /\ pc = "done"
        /\ out[Len(out)] = Msg("Finished deploy")
        /\ ~written.exists
        /\ ~Said("system")

(***************************************************************************)
(* C6  Deploy selection invariant.  Whenever the run is past selection,    *)
(* deploy_tasks is a non-empty list of keys of configs.tasks and           *)
(* deploy_targets a non-empty list of service names of the rendered        *)
(* document.                                                               *)
(***************************************************************************)
C6_SelectionInvariant ==
    PastSelection =>
        /\ deploy_tasks # << >>
        /\ Range(deploy_tasks) \subseteq Range(TaskKeys(configs))
        /\ deploy_targets # << >>
        /\ Range(deploy_targets) \subseteq Range(ServiceNames(Rendered))

(***************************************************************************)
(* C7  Silent mode suppresses interaction.  With the silent flag set no    *)
(* input is ever requested, neither for a selection nor for the            *)
(* confirmation; a selection that is not taken from the caller-supplied    *)
(* list is the first task, respectively every target.                      *)
(***************************************************************************)
C7_SilentNeverAsks ==
    silent =>
        /\ \A e \in InputEvents : ~Said(e)
        /\ pc \notin {"resolve_deploy_tasks", "resolve_deploy_targets", "resolve_agreement"}
        /\ (PastSelection /\ ~FlagAccepted(tasks, TaskKeys(configs)))
                => deploy_tasks = << TaskKeys(configs)[1] >>
        /\ (PastSelection /\ ~FlagAccepted(targets, ServiceNames(Rendered)))
                => deploy_targets = ServiceNames(Rendered)

(***************************************************************************)
(* C8  Pipeline ordering.  Executed steps follow the order of              *)
(* deploy_tasks, then of the task's subtasks, then of the subtask's steps, *)
(* without gaps inside a subtask; a step is started only when the previous *)
(* one has returned; a later subtask is started only after the earlier one *)
(* was reported finished or skipped.                                       *)
(***************************************************************************)
Lex(a, b) ==
    \/ a.t < b.t
    \/ a.t = b.t /\ a.s < b.s
    \/ a.t = b.t /\ a.s = b.s /\ a.i < b.i

C8_PipelineOrdering ==
    /\ \A k \in 1..Len(out) : out[k].ev = "system" =>
        /\ \A m \in (k + 1)..Len(out) : out[m].ev = "system" => Lex(out[k], out[m])
        /\ out[k].i > 1 =>
              \E j \in 1..(k - 1) : out[j] = [out[k] EXCEPT !.i = @ - 1]
        /\ IF k = Len(out) THEN pc = "running"
                           ELSE out[k + 1] = [out[k] EXCEPT !.ev = "returned"]
        /\ k > 1 /\ out[k - 1] = [out[k] EXCEPT !.ev = "Step"]
    /\ \A k \in 1..Len(out) : out[k].ev = "Started" =>
        \A m \in (k + 1)..Len(out) :
            (/\ out[m].ev \in {"Started", "Step", "system"}
             /\ << out[m].t, out[m].s >> # << out[k].t, out[k].s >>)
            => /\ Lex(out[k], [out[m] EXCEPT !.i = 1])
               /\ \E n \in (k + 1)..(m - 1) :
                    /\ out[n].ev \in {"Finished", "Skipping"}
                    /\ out[n].t = out[k].t /\ out[n].s = out[k].s

\* Two tasks were run to the end, one of them with a skipped subtask.
C8_Witness ==
    /\ pc = "remove"
    /\ deploy_tasks = << "down", "up" >>
    /\ Count("Started") = 3
    /\ Count("system") >= 4
    /\ Said("Skipping")

(***************************************************************************)
(* C9  Non-empty invariants gate side effects.  With no task in the        *)
(* configuration the run ends at load_configs, before any input is         *)
(* requested; with no service in the rendered document it ends at          *)
(* load_compose; and as long as the write step has not been reached no     *)
(* compose file exists and no pipeline command has been executed.          *)
(***************************************************************************)
C9_NonEmptyGates ==
    /\ (~cfgFile.exists \/ cfgFile.tasks = << >>) =>
        /\ pc \in {"validate", "load_configs", "done", "crashed"}
        /\ \A e \in InputEvents : ~Said(e)
        /\ ~WriteDone
    /\ (LET doc == LoadComposeDoc(tplFile, LoadEnvironMap(envFile))
        IN  ~doc.has_services \/ doc.services = << >>) =>
        /\ pc \in {"validate", "load_configs", "load_environ", "load_compose",
                   "done", "crashed"}
        /\ ~WriteDone
    /\ ~WriteDone =>
        /\ ~written.exists
        /\ ~Said("system")

\* A template that renders to an empty services mapping ended the run.
C9_Witness ==
    /\ Terminated
    /\ raised = "InterruptedError"
    /\ tplFile = TplOf(TRUE, << >>)
    /\ Said("No services were found")
    /\ ~written.exists

(***************************************************************************)
(* C10  Selection re-prompt in enter.  A line read by enter resolves as    *)
(* follows: the empty line to the default (the first task, every target),  *)
(* a line with the token all to every candidate, a line with no candidate  *)
(* and no all to another prompt; what enter returns is a non-empty list of *)
(* candidates; in silent mode no line is ever read.                        *)
(***************************************************************************)
HasWord(line, words) == \E k \in 1..Len(line) : Lower(line[k]) \in words

C10_EnterContract ==
    [][ /\ pc = "resolve_deploy_tasks" =>
            LET allowed == TaskKeys(configs)
            IN  /\ user_input = << >> =>
                    pc' = "enter_deploy_targets" /\ deploy_tasks' = << allowed[1] >>
                /\ HasWord(user_input, {"all"}) =>
                    pc' = "enter_deploy_targets" /\ deploy_tasks' = allowed
                /\ (user_input # << >> /\ ~HasWord(user_input, Range(allowed) \cup {"all"})) =>
                    pc' = "enter_deploy_tasks" /\ deploy_tasks' = deploy_tasks
                /\ pc' = "enter_deploy_targets" =>
                    deploy_tasks' # << >> /\ Range(deploy_tasks') \subseteq Range(allowed)
        /\ pc = "resolve_deploy_targets" =>
            LET allowed == ServiceNames(compose)
            IN  /\ (user_input = << >> \/ HasWord(user_input, {"all"})) =>
                    pc' = "ask_to_continue" /\ deploy_targets' = allowed
                /\ (user_input # << >> /\ ~HasWord(user_input, Range(allowed) \cup {"all"})) =>
                    pc' = "enter_deploy_targets" /\ deploy_targets' = deploy_targets
                /\ pc' = "ask_to_continue" =>
                    deploy_targets' # << >> /\ Range(deploy_targets') \subseteq Range(allowed)
        /\ silent => pc' \notin {"resolve_deploy_tasks", "resolve_deploy_targets"}
      ]_vars

(***************************************************************************)
(* C11  A non-zero exit status is not a step failure.  When os.system      *)
(* returns, whatever the status, the loop moves to the next step of the    *)
(* same subtask; that step is executed unless interpolating or launching   *)
(* it raises; at the end of the step list the subtask is reported          *)
(* Finished; Skipping is reported only for a step that raises.             *)
(***************************************************************************)
C11_ExitStatusIgnored ==
    [][ /\ pc = "running" =>
            /\ pc' = "step" /\ ti' = ti /\ si' = si /\ pi' = pi + 1
            /\ exit_code' \in ExitCodes
            /\ out' = Append(out, Ev("returned", ti, si, pi))
        /\ pc = "step" =>
            LET pipeline == PipelineOf(<< ti, si >>)
            IN  /\ (pi <= Len(pipeline) /\ ~Raises(pipeline[pi])) =>
                    /\ pc' = "running"
                    /\ out' = out \o << Ev("Step", ti, si, pi), Ev("system", ti, si, pi) >>
                /\ pi > Len(pipeline) =>
                    /\ pc' = "subtask"
                    /\ out' = Append(out, Ev("Finished", ti, si, 0))
        /\ (Len(out') > Len(out) /\ out'[Len(out')].ev = "Skipping") =>
            /\ pc = "step"
            /\ pi <= Len(PipelineOf(<< ti, si >>))
            /\ Raises(PipelineOf(<< ti, si >>)[pi])
      ]_vars

\* The first step of a subtask has returned a non-zero status and the
\* second one, which does not raise, is next.
C11_Witness ==
    /\ pc = "step"
    /\ exit_code = 1
    /\ pi = 2
    /\ out[Len(out)] = Ev("returned", ti, si, 1)
    /\ Len(PipelineOf(<< ti, si >>)) >= 2
    /\ ~Raises(PipelineOf(<< ti, si >>)[2])

(***************************************************************************)
(* C12  Confirmation gate outcome.  ask_to_continue raises                 *)
(* InterruptedError only on the answer no; on the answer yes (or the empty *)
(* answer), also after unrecognised answers, it returns and the run goes   *)
(* on to write the compose file.                                           *)
(***************************************************************************)
C12_ConfirmationGate ==
    [][ pc = "resolve_agreement" =>
            /\ Agreement(user_input) = "yes" => (pc' = "save" /\ raised' = "none")
            /\ raised' = "InterruptedError" => Agreement(user_input) = "no"
      ]_vars

====
